---- MODULE Spec2Model ----
(***************************************************************************)
(* Model of Vis1.py: a Streamlit script that loads MarketData.csv through  *)
(* the cached load_data, derives the summary columns, and renders three    *)
(* year-driven charts and a Bokeh line chart.  One run of the script is a  *)
(* walk of pc from "start" to "done" (or "failed" when a statement         *)
(* raises); a widget change makes Streamlit run the script again.          *)
(*                                                                         *)
(* Numbers.  Prices are integers.  A float result is the exact rational    *)
(* in lowest terms, or one of the IEEE specials inf, -inf, nan that        *)
(* numpy's division produces for a zero divisor.                           *)
(* Dates.  A Date cell of the CSV is the number its digits spell,          *)
(* yyyymmdd (2020-01-02 is 20200102); 0 stands for text that is no date.   *)
(***************************************************************************)
EXTENDS Integers, Sequences, FiniteSets, TLC

VARIABLES csv, cache, df, pc, error, year1, year2, year3,
          chart1, chart2, chart3, bokeh_chart

vars == <<csv, cache, df, pc, error, year1, year2, year3,
          chart1, chart2, chart3, bokeh_chart>>

----------------------------------------------------------------------------
(* Bounds of the explored inputs *)

MaxRows == 3

MaxPrice == 2

MaxRowsMA == 6

----------------------------------------------------------------------------
(* Floating-point values *)

Abs(x) == IF x < 0 THEN -x ELSE x

RECURSIVE GCD(_, _)
GCD(a, b) == IF b = 0 THEN a ELSE GCD(b, a % b)

NaN == [kind |-> "nan", num |-> 0, den |-> 1]

PosInf == [kind |-> "inf", num |-> 1, den |-> 0]

NegInf == [kind |-> "-inf", num |-> -1, den |-> 0]

Fin(n, d) ==
    LET g == GCD(Abs(n), Abs(d))
        s == IF d < 0 THEN -1 ELSE 1
    IN  [kind |-> "fin", num |-> (s * n) \div g, den |-> (s * d) \div g]

IsFinite(v) == v.kind = "fin"

(* A division that yields 0 for a zero divisor *)
TrueDivZeroAsZero(n, d) == IF d = 0 THEN Fin(0, 1) ELSE Fin(n, d)

(* numpy true division of two finite numbers n / d: a zero divisor gives   *)
(* inf, -inf or nan, never an exception                                    *)
TrueDiv(n, d) ==
    IF d = 0
    THEN IF n > 0 THEN PosInf ELSE IF n < 0 THEN NegInf ELSE NaN
    ELSE Fin(n, d)

(* float * positive integer *)
MulInt(v, k) == IF IsFinite(v) THEN Fin(v.num * k, v.den) ELSE v

(* v > 0 for a float v: false for nan *)
GreaterThanZero(v) ==
    \/ v.kind = "inf"
    \/ v.kind = "fin" /\ v.num > 0

RECURSIVE SumSeq(_)
SumSeq(s) == IF s = <<>> THEN 0 ELSE s[1] + SumSeq(Tail(s))

----------------------------------------------------------------------------
(* pd.to_datetime and the .dt accessors *)

IsLeap(y) == (y % 4 = 0 /\ y % 100 # 0) \/ y % 400 = 0

DaysInMonth(y, m) ==
    IF m = 2 THEN (IF IsLeap(y) THEN 29 ELSE 28)
    ELSE IF m \in {4, 6, 9, 11} THEN 30 ELSE 31

(* A parse that turns text that is no date into the epoch (coercion) *)
to_datetime_coerce(text) ==
    LET y == text \div 10000
        m == (text \div 100) % 100
        d == text % 100
    IN  IF y >= 1 /\ m \in 1..12 /\ d >= 1 /\ d <= DaysInMonth(y, m)
        THEN [ok |-> TRUE, year |-> y, month |-> m, day |-> d]
        ELSE [ok |-> TRUE, year |-> 1970, month |-> 1, day |-> 1]

(* pd.to_datetime of one cell: raises (ok = FALSE) on text that is no date *)
to_datetime(text) ==
    LET y == text \div 10000
        m == (text \div 100) % 100
        d == text % 100
    IN  IF y >= 1 /\ m \in 1..12 /\ d >= 1 /\ d <= DaysInMonth(y, m)
        THEN [ok |-> TRUE, year |-> y, month |-> m, day |-> d]
        ELSE [ok |-> FALSE, year |-> 0, month |-> 0, day |-> 0]

month_name ==
    <<"January", "February", "March", "April", "May", "June", "July",
      "August", "September", "October", "November", "December">>

----------------------------------------------------------------------------
(* The input file MarketData.csv *)

IndexCol == "Unnamed: 0"

RequiredCols == {"Ticker", "Date", "Open", "Close", "Adj Close", "Volume"}

AllCols == RequiredCols \cup {IndexCol}

RawRow(t, d, o, c, a) ==
    [Ticker |-> t, Date |-> d, Open |-> o, Close |-> c, AdjClose |-> a,
     Volume |-> 100]

----------------------------------------------------------------------------
(* load_data *)

window_size == 5

ticker_name_mapping ==
    ("^NYA" :> "New York Stock Exchange") @@ ("^IXIC" :> "NASDAQ") @@
    ("^DJI" :> "Dow Jones") @@ ("^GSPC" :> "S&P 500")

(* A cell of a text column: a string, or the missing value NaN *)
Str(s) == [isna |-> FALSE, str |-> s]

NaStr == [isna |-> TRUE, str |-> ""]

(* Series.map(dict): a key that is not in the dict maps to NaN *)
SeriesMap(key, mapping) ==
    IF key \in DOMAIN mapping THEN Str(mapping[key]) ELSE NaStr

(* lambda x: 1 if x > 0 else 0, on the integer Price_Change *)
PriceChangeDirection(x) == IF x > 0 THEN 1 ELSE 0

(* lambda x: 1 if x > 0 else 0, on the float Price_Percentage_Change *)
(* The comparison x >= 0 in place of x > 0 *)
PercentageDirectionNonNegative(v) ==
    IF v.kind = "inf" \/ (v.kind = "fin" /\ v.num >= 0) THEN 1 ELSE 0

PercentageDirection(v) == IF GreaterThanZero(v) THEN 1 ELSE 0

(* ((Close - Open) / Open) * 100 *)
PricePercentageChange(close, open) == MulInt(TrueDiv(close - open, open), 100)

(* Series.rolling(window).mean() at position i (1-based) of the column, in *)
(* file order: NaN until the window is full                                *)
RollingMean(column, window, i) ==
    IF i < window
    THEN NaN
    ELSE TrueDiv(SumSeq(SubSeq(column, i - window + 1, i)), window)

Column(rows, name) == [i \in DOMAIN rows |-> rows[i][name]]

DerivedCols ==
    {"Price_Change", "Price_Change_Direction", "Price_Percentage_Change",
     "Price_Percentage_Change_Direction", "Moving_Average", "Year", "Month",
     "Month_Name", "Ticker_Name"}

DeriveRow(rows, i) ==
    LET r  == rows[i]
        dt == to_datetime(r.Date)
        pct == PricePercentageChange(r.Close, r.Open)
    IN  [Ticker |-> r.Ticker,
         Date |-> [year |-> dt.year, month |-> dt.month, day |-> dt.day],
         Open |-> r.Open, Close |-> r.Close, AdjClose |-> r.AdjClose,
         Volume |-> r.Volume,
         Price_Change |-> r.AdjClose - r.Open,
         Price_Change_Direction |-> PriceChangeDirection(r.AdjClose - r.Open),
         Price_Percentage_Change |-> pct,
         Price_Percentage_Change_Direction |-> PercentageDirection(pct),
         Moving_Average |->
             RollingMean(Column(rows, "AdjClose"), window_size, i),
         Year |-> dt.year,
         Month |-> dt.month,
         Month_Name |-> month_name[dt.month],
         Ticker_Name |-> SeriesMap(r.Ticker, ticker_name_mapping)]

NoTable == [cols |-> {}, rows |-> <<>>]

Raise(e) == [ok |-> FALSE, error |-> e, table |-> NoTable]

Return(t) == [ok |-> TRUE, error |-> "", table |-> t]

(* The body of load_data, statement by statement: the first statement that *)
(* raises ends it.                                                         *)
load_data(file) ==
    IF "Date" \notin file.cols THEN Raise("KeyError: Date")
    ELSE IF \E i \in DOMAIN file.rows : ~to_datetime(file.rows[i].Date).ok
        THEN Raise("ParserError")
    ELSE IF IndexCol \notin file.cols THEN Raise("KeyError: Unnamed: 0")
    ELSE IF "Adj Close" \notin file.cols THEN Raise("KeyError: Adj Close")
    ELSE IF "Open" \notin file.cols THEN Raise("KeyError: Open")
    ELSE IF "Close" \notin file.cols THEN Raise("KeyError: Close")
    ELSE IF "Ticker" \notin file.cols THEN Raise("KeyError: Ticker")
    ELSE Return([cols |-> (file.cols \ {IndexCol}) \cup DerivedCols,
                 rows |-> [i \in DOMAIN file.rows |->
                              DeriveRow(file.rows, i)]])

(* @st.cache: the first successful call stores its result, later calls     *)
(* return the stored object; a call that raises stores nothing.            *)
NoCache == [valid |-> FALSE, value |-> NoTable]

cached_load_data(c, file) ==
    IF c.valid
    THEN [result |-> Return(c.value), cache |-> c]
    ELSE LET res == load_data(file)
         IN  [result |-> res,
              cache |-> IF res.ok THEN [valid |-> TRUE, value |-> res.table]
                        ELSE c]

----------------------------------------------------------------------------
(* The widgets and the charts *)

Range(s) == {s[i] : i \in DOMAIN s}

(* Series.unique(): the distinct values in order of first appearance *)
RECURSIVE unique(_)
unique(s) ==
    IF s = <<>> THEN <<>>
    ELSE LET front == unique(SubSeq(s, 1, Len(s) - 1))
             last  == s[Len(s)]
         IN  IF last \in Range(front) THEN front ELSE Append(front, last)

YearOptions(table) == unique(Column(table.rows, "Year"))

(* st.selectbox(options=..., key=...): the value kept under the key, or    *)
(* the first option when nothing valid is kept (0: nothing kept yet, and   *)
(* the None returned for an empty option list)                             *)
selectbox(options, kept) ==
    IF options = <<>> THEN 0
    ELSE IF kept \in Range(options) THEN kept ELSE options[1]

(* df[df['Year'] == year] *)
filtered_data(table, year) ==
    LET HasYear(r) == r.Year = year
    IN  SelectSeq(table.rows, HasYear)

(* groupby('Ticker')['Price_Change_Direction'].value_counts().unstack()    *)
(* .fillna(0): one line per ticker, one column per direction that occurs   *)
(* in the filtered rows, 0 where a ticker has no row of that direction     *)
grouped_data(rows) ==
    LET tickers == {rows[i].Ticker : i \in DOMAIN rows}
        columns == {rows[i].Price_Change_Direction : i \in DOMAIN rows}
        Count(t, d) ==
            Cardinality({i \in DOMAIN rows :
                rows[i].Ticker = t /\ rows[i].Price_Change_Direction = d})
    IN  [index |-> tickers, columns |-> columns,
         cell |-> [t \in tickers |-> [d \in columns |-> Count(t, d)]]]

NotDrawn1 == [rendered |-> FALSE, year |-> 0, counts |-> <<>>]

(* update_plot: grouped_data[0] and grouped_data[1] raise KeyError when    *)
(* the column is not there                                                 *)
update_plot(table, year) ==
    LET g == grouped_data(filtered_data(table, year))
    IN  IF 0 \notin g.columns THEN [ok |-> FALSE, error |-> "KeyError: 0",
                                    chart |-> NotDrawn1]
        ELSE IF 1 \notin g.columns THEN [ok |-> FALSE, error |-> "KeyError: 1",
                                         chart |-> NotDrawn1]
        ELSE [ok |-> TRUE, error |-> "",
              chart |-> [rendered |-> TRUE, year |-> year,
                         counts |-> [t \in g.index |->
                                       [losses |-> g.cell[t][0],
                                        profits |-> g.cell[t][1]]]]]

NotDrawn == [rendered |-> FALSE, year |-> 0, rows |-> <<>>]

(* plot_price_change: one bar per filtered row *)
plot_price_change(table, year) ==
    [rendered |-> TRUE, year |-> year, rows |-> filtered_data(table, year)]

(* the Altair chart of filtered_altair_df *)
altair_chart(table, year) ==
    [rendered |-> TRUE, year |-> year, rows |-> filtered_data(table, year)]

ticker_names ==
    ("^NYA" :> "NYSE") @@ ("^IXIC" :> "NASDAQ") @@
    ("^DJI" :> "Dow Jones") @@ ("^GSPC" :> "S&P 500")

(* dict.get(key, default) *)
DictGet(mapping, key, default) ==
    IF key \in DOMAIN mapping THEN mapping[key] ELSE default

NoBokeh == [rendered |-> FALSE, legend |-> <<>>]

(* create_bokeh_plot: one line per ticker, labelled ticker_names.get *)
create_bokeh_plot(table) ==
    LET tickers == {table.rows[i].Ticker : i \in DOMAIN table.rows}
    IN  [rendered |-> TRUE,
         legend |-> [t \in tickers |-> DictGet(ticker_names, t, t)]]

----------------------------------------------------------------------------
(* One run of the script, statement by statement *)

NoDf == [loaded |-> FALSE, table |-> NoTable]

(* line 45: df = load_data() *)
LoadData1 ==
    /\ pc = "start"
    /\ LET r == cached_load_data(cache, csv)
       IN  /\ cache' = r.cache
           /\ IF r.result.ok
              THEN /\ df' = [loaded |-> TRUE, table |-> r.result.table]
                   /\ pc' = "select1"
                   /\ error' = error
              ELSE /\ df' = df
                   /\ pc' = "failed"
                   /\ error' = r.result.error
    /\ UNCHANGED <<csv, year1, year2, year3, chart1, chart2, chart3,
                   bokeh_chart>>

(* line 48: year_for_losses_and_profits = st.selectbox(..., key='year1') *)
SelectYear1 ==
    /\ pc = "select1"
    /\ year1' = selectbox(YearOptions(df.table), year1)
    /\ pc' = "plot1"
    /\ UNCHANGED <<csv, cache, df, error, year2, year3, chart1, chart2,
                   chart3, bokeh_chart>>

(* A variant of line 70 that narrows the loaded table in place *)
UpdatePlotInPlace ==
    /\ pc = "plot1"
    /\ LET r == update_plot(df.table, year1)
           narrowed == [df.table EXCEPT
                           !.rows = filtered_data(df.table, year1)]
       IN  /\ df' = [df EXCEPT !.table = narrowed]
           /\ cache' = [cache EXCEPT !.value = narrowed]
           /\ IF r.ok
              THEN chart1' = r.chart /\ pc' = "select2" /\ error' = error
              ELSE chart1' = chart1 /\ pc' = "failed" /\ error' = r.error
    /\ UNCHANGED <<csv, year1, year2, year3, chart2, chart3, bokeh_chart>>

(* line 70: update_plot(year_for_losses_and_profits) *)
UpdatePlot ==
    /\ pc = "plot1"
    /\ LET r == update_plot(df.table, year1)
       IN  IF r.ok
           THEN chart1' = r.chart /\ pc' = "select2" /\ error' = error
           ELSE chart1' = chart1 /\ pc' = "failed" /\ error' = r.error
    /\ UNCHANGED <<csv, cache, df, year1, year2, year3, chart2, chart3,
                   bokeh_chart>>

(* line 73: year_for_price_change = st.selectbox(..., key='year2') *)
SelectYear2 ==
    /\ pc = "select2"
    /\ year2' = selectbox(YearOptions(df.table), year2)
    /\ pc' = "plot2"
    /\ UNCHANGED <<csv, cache, df, error, year1, year3, chart1, chart2,
                   chart3, bokeh_chart>>

(* line 90: plot_price_change(year_for_price_change) *)
PlotPriceChange ==
    /\ pc = "plot2"
    /\ chart2' = plot_price_change(df.table, year2)
    /\ pc' = "select3"
    /\ UNCHANGED <<csv, cache, df, error, year1, year2, year3, chart1,
                   chart3, bokeh_chart>>

(* line 93: year_for_altair = st.selectbox(..., key='year3') *)
SelectYear3 ==
    /\ pc = "select3"
    /\ year3' = selectbox(YearOptions(df.table), year3)
    /\ pc' = "altair"
    /\ UNCHANGED <<csv, cache, df, error, year1, year2, chart1, chart2,
                   chart3, bokeh_chart>>

(* lines 96-109: filtered_altair_df, the chart, st.altair_chart *)
AltairChart ==
    /\ pc = "altair"
    /\ chart3' = altair_chart(df.table, year3)
    /\ pc' = "load2"
    /\ UNCHANGED <<csv, cache, df, error, year1, year2, year3, chart1,
                   chart2, bokeh_chart>>

(* line 156: df = load_data(), the second call *)
LoadData2 ==
    /\ pc = "load2"
    /\ LET r == cached_load_data(cache, csv)
       IN  /\ cache' = r.cache
           /\ IF r.result.ok
              THEN /\ df' = [loaded |-> TRUE, table |-> r.result.table]
                   /\ pc' = "bokeh"
                   /\ error' = error
              ELSE /\ df' = df
                   /\ pc' = "failed"
                   /\ error' = r.result.error
    /\ UNCHANGED <<csv, year1, year2, year3, chart1, chart2, chart3,
                   bokeh_chart>>

(* lines 159-160: create_bokeh_plot(df), st.bokeh_chart *)
BokehChart ==
    /\ pc = "bokeh"
    /\ bokeh_chart' = create_bokeh_plot(df.table)
    /\ pc' = "done"
    /\ UNCHANGED <<csv, cache, df, error, year1, year2, year3, chart1,
                   chart2, chart3>>

(* The widget k was drawn by the run that has just ended *)
WidgetDrawn(k) ==
    CASE k = 1 -> df.loaded
      [] k = 2 -> chart1.rendered
      [] k = 3 -> chart2.rendered

(* The user picks another year on one of the drawn widgets: Streamlit     *)
(* keeps the value under the widget's key and runs the script again from  *)
(* the top, with the process-wide cache kept.                             *)
UserSelects ==
    /\ pc \in {"done", "failed"}
    /\ \E k \in 1..3 : \E y \in Range(YearOptions(df.table)) :
          /\ WidgetDrawn(k)
          /\ y # <<year1, year2, year3>>[k]
          /\ year1' = IF k = 1 THEN y ELSE year1
          /\ year2' = IF k = 2 THEN y ELSE year2
          /\ year3' = IF k = 3 THEN y ELSE year3
    /\ pc' = "start"
    /\ df' = NoDf
    /\ error' = ""
    /\ chart1' = NotDrawn1
    /\ chart2' = NotDrawn
    /\ chart3' = NotDrawn
    /\ bokeh_chart' = NoBokeh
    /\ UNCHANGED <<csv, cache>>

Next ==
    \/ LoadData1
    \/ SelectYear1
    \/ UpdatePlot
    \/ SelectYear2
    \/ PlotPriceChange
    \/ SelectYear3
    \/ AltairChart
    \/ LoadData2
    \/ BokehChart
    \/ UserSelects

----------------------------------------------------------------------------
(* Inputs *)

Fresh ==
    /\ cache = NoCache
    /\ df = NoDf
    /\ pc = "start"
    /\ error = ""
    /\ year1 = 0
    /\ year2 = 0
    /\ year3 = 0
    /\ chart1 = NotDrawn1
    /\ chart2 = NotDrawn
    /\ chart3 = NotDrawn
    /\ bokeh_chart = NoBokeh

RECURSIVE SeqsUpTo(_, _)
SeqsUpTo(S, n) ==
    IF n = 0 THEN {<<>>}
    ELSE LET shorter == SeqsUpTo(S, n - 1)
         IN  shorter \cup {Append(s, x) : s \in shorter, x \in S}

(* Files of 1..MaxRows rows: a mapped and an unmapped ticker, two years    *)
(* and a cell that is no date, a rising and a falling row, and one row     *)
(* with Open = 0, with all columns present; and the one-row files with a   *)
(* column missing (a missing column raises whatever the rows hold).        *)
ScriptTickers == {"^GSPC", "XYZ"}

ScriptDates == {20200102, 20210203, 0}

ScriptPrices == {<<1, 2, 2>>, <<2, 1, 1>>}

ScriptRows ==
    {RawRow(t, d, p[1], p[2], p[3]) :
        t \in ScriptTickers, d \in ScriptDates, p \in ScriptPrices}
    \cup {RawRow("^GSPC", 20200102, 0, 1, 1)}

ColumnSets == {AllCols} \cup {AllCols \ {c} : c \in AllCols}

Init ==
    /\ csv \in [cols : {AllCols},
                rows : SeqsUpTo(ScriptRows, MaxRows) \ {<<>>}]
             \cup [cols : ColumnSets \ {AllCols},
                   rows : SeqsUpTo(ScriptRows, 1) \ {<<>>}]
    /\ Fresh

Spec == Init /\ [][Next]_vars

(* Files of two rows of one index whose Open, Close and Adj Close range    *)
(* over -1..MaxPrice, and over the prices 100, 105, 104.                   *)
PriceRange == (-1)..MaxPrice

PriceTriples ==
    (PriceRange \X PriceRange \X PriceRange) \cup {<<100, 105, 104>>}

InitPrices ==
    /\ \E p \in PriceTriples, q \in PriceTriples :
       \E d \in {20200103, 20210104} :
          csv = [cols |-> AllCols,
                 rows |-> <<RawRow("^DJI", 20200102, p[1], p[2], p[3]),
                            RawRow("^DJI", d, q[1], q[2], q[3])>>]
    /\ Fresh

SpecPrices == InitPrices /\ [][Next]_vars

(* Files of window_size..MaxRowsMA rows of two indices in any interleaving, *)
(* on consecutive days across a new year, oldest first or newest first.     *)
Day(k) == IF k <= 3 THEN 20191228 + k ELSE 20200100 + (k - 3)

InitMA ==
    /\ \E n \in window_size..MaxRowsMA :
       \E tk \in [1..n -> {"^GSPC", "^DJI"}], adj \in [1..n -> {1, 2}] :
       \E oldestFirst \in BOOLEAN :
          csv = [cols |-> AllCols,
                 rows |-> [i \in 1..n |->
                    RawRow(tk[i],
                           IF oldestFirst THEN Day(i) ELSE Day(n + 1 - i),
                           1, adj[i], adj[i])]]
    /\ Fresh

SpecMA == InitMA /\ [][Next]_vars

----------------------------------------------------------------------------
(* Properties of the derived columns *)

Rows == df.table.rows

DateKey(r) == r.Date.year * 10000 + r.Date.month * 100 + r.Date.day

(* The records of the same ticker dated before record i *)
Preceding(i) ==
    {j \in DOMAIN Rows :
        Rows[j].Ticker = Rows[i].Ticker /\ DateKey(Rows[j]) < DateKey(Rows[i])}

(* Record i and the 4 records that precede it most closely *)
TrailingWindow(i) ==
    {i} \cup {j \in Preceding(i) :
                Cardinality({k \in Preceding(i) :
                    DateKey(Rows[k]) > DateKey(Rows[j])}) < window_size - 1}

RECURSIVE SumAdjClose(_)
SumAdjClose(S) ==
    IF S = {} THEN 0
    ELSE LET j == CHOOSE k \in S : TRUE
         IN  Rows[j].AdjClose + SumAdjClose(S \ {j})

(* C1: the MovingAverage of every loaded record that has 4 records of its  *)
(* own ticker before it (by Date) is the mean of AdjClose over the record   *)
(* and those 4; records of other tickers and the file order play no part.   *)
C1_MovingAveragePerTicker ==
    df.loaded =>
        \A i \in DOMAIN Rows :
            Cardinality(Preceding(i)) >= window_size - 1 =>
                /\ IsFinite(Rows[i].Moving_Average)
                /\ Rows[i].Moving_Average.num * window_size =
                       SumAdjClose(TrailingWindow(i)) * Rows[i].Moving_Average.den

(* C2: for every ticker, its first 4 records by Date have the missing      *)
(* marker as MovingAverage and its 5th record has the mean of the ticker's *)
(* first 5 AdjClose values.                                                *)
C2_FirstFourMissingPerTicker ==
    df.loaded =>
        \A i \in DOMAIN Rows :
            /\ Cardinality(Preceding(i)) < window_size - 1 =>
                   Rows[i].Moving_Average = NaN
            /\ Cardinality(Preceding(i)) = window_size - 1 =>
                   /\ IsFinite(Rows[i].Moving_Average)
                   /\ Rows[i].Moving_Average.num * window_size =
                          SumAdjClose({i} \cup Preceding(i))
                              * Rows[i].Moving_Average.den

(* C3: Ticker_Name of every loaded record is the label of the lookup table *)
(* when Ticker is one of its keys and the raw Ticker otherwise, never a    *)
(* missing value.                                                          *)
C3_TickerNameFallsBackToTicker ==
    df.loaded =>
        \A i \in DOMAIN Rows :
            /\ ~Rows[i].Ticker_Name.isna
            /\ Rows[i].Ticker_Name.str =
                   IF Rows[i].Ticker \in DOMAIN ticker_name_mapping
                   THEN ticker_name_mapping[Rows[i].Ticker]
                   ELSE Rows[i].Ticker

(* C4: for every loaded record with valid (non-negative) prices,           *)
(* Price_Change is AdjClose - Open and its direction is 1 exactly when     *)
(* AdjClose > Open; Price_Percentage_Change is (Close - Open) / Open * 100 *)
(* and its direction is 1 exactly when Close > Open; Open=100, Close=105,  *)
(* AdjClose=104 gives 4, 1, 5 and 1.                                       *)
C4_DirectionsFollowPrices ==
    df.loaded =>
        \A i \in DOMAIN Rows :
            LET r == Rows[i]
            IN  r.Open >= 0 =>
                  /\ r.Price_Change = r.AdjClose - r.Open
                  /\ r.Price_Change_Direction = 1 <=> r.AdjClose > r.Open
                  /\ r.Price_Change_Direction = 0 <=> ~(r.AdjClose > r.Open)
                  /\ r.Price_Percentage_Change_Direction = 1 <=> r.Close > r.Open
                  /\ r.Price_Percentage_Change_Direction = 0 <=> ~(r.Close > r.Open)
                  /\ r.Open > 0 =>
                        /\ IsFinite(r.Price_Percentage_Change)
                        /\ r.Price_Percentage_Change.num * r.Open =
                              (r.Close - r.Open) * 100
                                  * r.Price_Percentage_Change.den
                  /\ (r.Open = 100 /\ r.Close = 105 /\ r.AdjClose = 104) =>
                        /\ r.Price_Change = 4
                        /\ r.Price_Change_Direction = 1
                        /\ r.Price_Percentage_Change = Fin(5, 1)
                        /\ r.Price_Percentage_Change_Direction = 1

(* A run has ended with the example row loaded beside a row whose Close    *)
(* rose above a positive Open while its AdjClose did not.                  *)
C4_Witness ==
    /\ pc = "done"
    /\ \E i, j \in DOMAIN Rows :
          /\ Rows[i].Open = 100 /\ Rows[i].Close = 105 /\ Rows[i].AdjClose = 104
          /\ Rows[j].Open > 0 /\ Rows[j].Close > Rows[j].Open
          /\ Rows[j].AdjClose < Rows[j].Open
          /\ Rows[j].Price_Change_Direction = 0
          /\ Rows[j].Price_Percentage_Change_Direction = 1

(* C6: every loaded record with Open = 0 has a non-finite                  *)
(* Price_Percentage_Change (inf, -inf or nan), whatever its Close.         *)
C6_ZeroOpenIsNonFinite ==
    df.loaded =>
        \A i \in DOMAIN Rows :
            Rows[i].Open = 0 =>
                /\ Rows[i].Price_Percentage_Change.kind \in {"inf", "-inf", "nan"}
                /\ Rows[i].Price_Percentage_Change # Fin(0, 1)

(* A table is loaded that holds a row with Open = 0 and Close = 0 and a    *)
(* row with Open = 0 and Close # 0.                                        *)
C6_Witness ==
    /\ df.loaded
    /\ \E i, j \in DOMAIN Rows :
          /\ Rows[i].Open = 0 /\ Rows[i].Close = 0
          /\ Rows[i].Price_Percentage_Change = NaN
          /\ Rows[j].Open = 0 /\ Rows[j].Close < 0
          /\ Rows[j].Price_Percentage_Change = NegInf

----------------------------------------------------------------------------
(* Properties of the script *)

NoChartDrawn ==
    /\ ~chart1.rendered
    /\ ~chart2.rendered
    /\ ~chart3.rendered
    /\ ~bokeh_chart.rendered

(* No chart-rendering statement has been reached in this run *)
NoChartStepRan == pc \in {"start", "failed"} /\ ~df.loaded /\ NoChartDrawn

(* A Date cell of the file is text that is no date *)
SomeDateUnparseable == \E i \in DOMAIN csv.rows : csv.rows[i].Date = 0

SomeOpenIsZero == \E i \in DOMAIN csv.rows : csv.rows[i].Open = 0

(* C5 as stated: with a required column missing, a Date unparseable or a   *)
(* row with Open = 0, the load aborts and no chart-rendering step runs.    *)
C5_AnyFailureAbortsLoad ==
    (\/ ~(RequiredCols \subseteq csv.cols)
     \/ SomeDateUnparseable
     \/ SomeOpenIsZero) => NoChartStepRan

(* The columns load_data reads or drops *)
ColsLoadUses == AllCols \ {"Volume"}

(* C5 as amended: with a column that load_data reads or drops missing, or  *)
(* a Date unparseable, the load aborts with the error surfaced, nothing is *)
(* cached and no chart-rendering step runs; otherwise (a missing Volume    *)
(* column and rows with Open = 0 included) the load returns the table.     *)
C5_LoadFailureAbortsBeforeCharts ==
    IF ~(ColsLoadUses \subseteq csv.cols) \/ SomeDateUnparseable
    THEN /\ NoChartStepRan
         /\ ~cache.valid
         /\ pc = "failed" => error # ""
    ELSE pc # "start" => df.loaded /\ cache.valid

(* The run of a file with an unparseable Date has ended in the surfaced    *)
(* parser error, before any chart.                                         *)
C5_Witness ==
    /\ pc = "failed"
    /\ error = "ParserError"
    /\ SomeDateUnparseable
    /\ ColsLoadUses \subseteq csv.cols
    /\ NoChartDrawn

(* C7: every call of load_data, the cached second call and the calls of    *)
(* later runs included, returns the table the first call derived from the  *)
(* file, and no chart-rendering step changes that table.                   *)
C7_LoadIsIdempotent ==
    /\ cache.valid =>
          /\ load_data(csv).ok
          /\ cache.value = load_data(csv).table
    /\ df.loaded => cache.valid /\ df.table = cache.value

(* A later run, started by a selection on the third widget, has ended     *)
(* with the table of the second call loaded.                               *)
C7_Witness ==
    /\ pc = "done"
    /\ df.loaded
    /\ bokeh_chart.rendered
    /\ Len(YearOptions(df.table)) >= 2
    /\ year3 = YearOptions(df.table)[2]
    /\ Len(filtered_data(df.table, year1)) < Len(Rows)

(* C8: a file that has the required columns (and dates that parse) loads,  *)
(* with or without the index column, into a table without that column.    *)
C8_LoadsWithOrWithoutIndexColumn ==
    (/\ RequiredCols \subseteq csv.cols
     /\ ~SomeDateUnparseable
     /\ pc # "start") =>
        /\ df.loaded
        /\ IndexCol \notin df.table.cols

RowsOfYear(y) == {i \in DOMAIN Rows : Rows[i].Year = y}

RowsOfChart(c) == {c.rows[i] : i \in DOMAIN c.rows}

TickersOfYear(y) == {Rows[i].Ticker : i \in RowsOfYear(y)}

CountsCoverYear(c, y) ==
    /\ DOMAIN c.counts = TickersOfYear(y)
    /\ \A t \in TickersOfYear(y) :
          c.counts[t].losses + c.counts[t].profits =
              Cardinality({i \in RowsOfYear(y) : Rows[i].Ticker = t})

(* C9: once the run that follows any sequence of selections has ended,     *)
(* each of the three year-driven charts is built from exactly the rows of  *)
(* its own widget's year, and every widget offers the years of the table   *)
(* (so a selection on one widget leaves the rows of the other two charts). *)
C9_ChartsFollowOwnWidget ==
    (pc \in {"done", "failed"} /\ df.loaded) =>
        /\ {year1, year2, year3} \subseteq {Rows[i].Year : i \in DOMAIN Rows}
        /\ Range(YearOptions(df.table)) = {Rows[i].Year : i \in DOMAIN Rows}
        /\ chart1.rendered /\ chart1.year = year1
        /\ CountsCoverYear(chart1, year1)
        /\ chart2.rendered /\ chart2.year = year2
        /\ RowsOfChart(chart2) = {Rows[i] : i \in RowsOfYear(year2)}
        /\ chart3.rendered /\ chart3.year = year3
        /\ RowsOfChart(chart3) = {Rows[i] : i \in RowsOfYear(year3)}

(* C10: once update_plot has run for the selected year it has completed,   *)
(* and for each ticker with rows in that year the loss count and the       *)
(* profit count add up to the number of the ticker's rows in the year.     *)
C10_UpdatePlotCompletes ==
    (df.loaded /\ pc \notin {"select1", "plot1"}) =>
        /\ chart1.rendered
        /\ chart1.year = year1
        /\ CountsCoverYear(chart1, year1)

====
